---- MODULE Spec2Model ----
(***************************************************************************)
(* Model of about_comment.py (Enhanced About Writer).                      *)
(*                                                                         *)
(* Text is modelled as a sequence of lexemes (strings that the program     *)
(* never looks inside, except through the tables below).  A file content   *)
(* is a sequence of lexemes, "\n" being the newline; a path is a sequence  *)
(* of segments and a segment a sequence of lexemes, so that lower(),       *)
(* upper(), suffix, startswith, endswith and `in` are computed on the      *)
(* text and not assumed.                                                   *)
(***************************************************************************)
EXTENDS Integers, Sequences, FiniteSets, TLC

VARIABLES fs, args, FILES_LIST, pc, idx, processed, skipped, errors,
          summary, exit_code, log, vanished, frame

vars == <<fs, args, FILES_LIST, pc, idx, processed, skipped, errors,
          summary, exit_code, log, vanished, frame>>

----------------------------------------------------------------------------
(* Bounds of the model *)

\* longest generated file body, in lexemes
MaxLen == 2
\* most files present in the directory tree of a run
MaxFiles == 2
\* most candidates removed by the environment during one batch
MaxVanish == 1
\* most consecutive edit_file calls on one file in SpecEdit
MaxRuns == 2

(* Program constants *)

\* has_about_statement looks at content.split('\n')[:20]
HeaderLines == 20
\* edit_file backs a file up when filepath.stat().st_size > 10000
BackupThreshold == 10000

NL == "\n"

----------------------------------------------------------------------------
(* Generic text helpers: Python str / list operations on lexeme sequences *)

\* s[:n]
Take(s, n) == SubSeq(s, 1, IF n < Len(s) THEN n ELSE Len(s))

\* s[n:]
Drop(s, n) == SubSeq(s, n + 1, Len(s))

\* `sub in s` for strings: sub occurs as a contiguous run of s
Contains(s, sub) ==
    \E i \in 1..(Len(s) - Len(sub) + 1) : SubSeq(s, i, i + Len(sub) - 1) = sub

\* s.startswith(pre)
StartsWith(s, pre) == Len(s) >= Len(pre) /\ SubSeq(s, 1, Len(pre)) = pre

\* s.endswith(suf)
EndsWith(s, suf) ==
    Len(s) >= Len(suf) /\ SubSeq(s, Len(s) - Len(suf) + 1, Len(s)) = suf

\* index of the first lexeme of s that is in set T, 0 if none (str.find)
RECURSIVE FindFrom(_, _, _)
FindFrom(s, T, i) ==
    IF i > Len(s) THEN 0
    ELSE IF s[i] \in T THEN i
    ELSE FindFrom(s, T, i + 1)

\* content.split('\n')
RECURSIVE Split(_)
Split(s) ==
    LET i == FindFrom(s, {NL}, 1)
    IN  IF i = 0 THEN <<s>>
        ELSE <<SubSeq(s, 1, i - 1)>> \o Split(Drop(s, i))

\* '\n'.join(lines)
RECURSIVE Join(_)
Join(lines) ==
    IF lines = <<>> THEN <<>>
    ELSE IF Len(lines) = 1 THEN lines[1]
    ELSE lines[1] \o <<NL>> \o Join(Tail(lines))

Whitespace == {" ", NL}

\* str.strip() on a lexeme sequence
RECURSIVE StripLeft(_)
StripLeft(s) ==
    IF s # <<>> /\ s[1] \in Whitespace THEN StripLeft(Tail(s)) ELSE s

RECURSIVE StripRight(_)
StripRight(s) ==
    IF s # <<>> /\ s[Len(s)] \in Whitespace
    THEN StripRight(SubSeq(s, 1, Len(s) - 1)) ELSE s

Strip(s) == StripRight(StripLeft(s))

\* str.lower() of one lexeme
LowerLex(a) ==
    CASE a = "PY"           -> "py"
      [] a = "MAIN"         -> "main"
      [] a = "Node_Modules" -> "node_modules"
      [] a = "R"            -> "r"
      [] OTHER              -> a

\* str.upper() of one lexeme
UpperLex(a) ==
    CASE a = "py"           -> "PY"
      [] a = "pyx"          -> "PYX"
      [] a = "html"         -> "HTML"
      [] a = "php"          -> "PHP"
      [] a = "c"            -> "C"
      [] a = "sh"           -> "SH"
      [] a = "js"           -> "JS"
      [] a = "xyz"          -> "XYZ"
      [] a = "pyc"          -> "PYC"
      [] a = "app"          -> "APP"
      [] a = "mod"          -> "MOD"
      [] a = "index"        -> "INDEX"
      [] a = "page"         -> "PAGE"
      [] a = "main"         -> "MAIN"
      [] a = "run"          -> "RUN"
      [] a = "lib"          -> "LIB"
      [] a = "notes"        -> "NOTES"
      [] a = "cache"        -> "CACHE"
      [] a = "build"        -> "BUILD"
      [] a = "er"           -> "ER"
      [] a = "r"            -> "R"
      [] a = "htm"          -> "HTM"
      [] a = "svg"          -> "SVG"
      [] a = "logo"         -> "LOGO"
      [] OTHER              -> a

Lower(s) == [i \in 1..Len(s) |-> LowerLex(s[i])]
Upper(s) == [i \in 1..Len(s) |-> UpperLex(s[i])]

\* len() in characters of the lexemes used as exclusion tokens
CharLen(a) ==
    CASE a = "node_modules" -> 12
      [] a = "build"        -> 5
      [] a = "out"          -> 3
      [] a = "pyc"          -> 3
      [] OTHER              -> 1

----------------------------------------------------------------------------
(* pathlib *)

\* path.name
Name(path) == path[Len(path)]

\* index of the last "." of a name, 0 if none (str.rfind)
RECURSIVE RFindDot(_, _)
RFindDot(name, i) ==
    IF i = 0 THEN 0
    ELSE IF name[i] = "." THEN i
    ELSE RFindDot(name, i - 1)

\* path.suffix: from the last dot, unless the dot leads or ends the name
Suffix(path) ==
    LET name == Name(path)
        i    == RFindDot(name, Len(name))
    IN  IF 1 < i /\ i < Len(name) THEN SubSeq(name, i, Len(name)) ELSE <<>>

----------------------------------------------------------------------------
(* Static tables (a sample of each family of the source's tables) *)

\* a Python string as lexemes: the empty string contributes nothing
Lex(x) == IF x = "" THEN <<>> ELSE <<x>>

ExtKey(e) == <<"*", ".", e>>

\* INCLUDED_EXTS: pattern -> (start_comment, end_comment)
INCLUDED_EXTS ==
    [k \in {ExtKey(e) : e \in {"c", "js", "php", "py", "pyx", "pyi", "r", "R",
                               "sh", "html", "htm", "xml", "svg", "txt"}} |->
        CASE k[3] \in {"c", "js", "php"}             -> <<"/*", "*/">>
          [] k[3] \in {"py", "pyx", "pyi"}           -> <<"\"\"\"", "\"\"\"">>
          [] k[3] \in {"r", "R", "sh"}               -> <<"# ", "">>
          [] k[3] \in {"html", "htm", "xml", "svg"}  -> <<"<!--", "-->">>
          [] OTHER                                   -> <<"", "">>]

\* EXCLUDED_EXTS
EXCLUDED_EXTS == {<<"pyc">>, <<"out">>, <<"node_modules">>, <<"build">>}

\* len(excluded)
RECURSIVE StrLen(_)
StrLen(s) == IF s = <<>> THEN 0 ELSE CharLen(s[1]) + StrLen(Tail(s))

\* file_type_map.get(ext, 'Source Code')
FileDescription(ext) ==
    CASE ext = <<".", "py">>   -> <<"Python Script">>
      [] ext = <<".", "c">>    -> <<"C ", "Source Code">>
      [] ext = <<".", "js">>   -> <<"JavaScript ", "Source Code">>
      [] ext = <<".", "html">> -> <<"HTML Document">>
      [] ext = <<".", "php">>  -> <<"PHP ", "Source Code">>
      [] ext = <<".", "sh">>   -> <<"Shell Script">>
      [] ext = <<".", "r">>    -> <<"R Script">>
      [] ext = <<".", "xml">>  -> <<"XML Document">>
      [] OTHER                 -> <<"Source Code">>

\* the formatted time of the file; its value is not inspected by the program
get_file_creation_time(filepath) == "<timestamp>"

----------------------------------------------------------------------------
(* is_excluded_path *)

\* is_excluded_path comparing the segments without lower()
is_excluded_path_CaseSensitive(path) ==
    \/ \E p \in 1..Len(path) : \E excluded \in EXCLUDED_EXTS :
          \/ excluded = path[p]
          \/ (Contains(path[p], excluded) /\ StrLen(excluded) > 3)
    \/ \E excluded \in EXCLUDED_EXTS :
          LET filename == Lower(Name(path))
          IN  \/ EndsWith(filename, <<".">> \o excluded)
              \/ filename = excluded

is_excluded_path(path) ==
    \/ \E p \in 1..Len(path) : \E excluded \in EXCLUDED_EXTS :
          LET part_lower == Lower(path[p])
          IN  \/ excluded = part_lower
              \/ (Contains(part_lower, excluded) /\ StrLen(excluded) > 3)
    \/ \E excluded \in EXCLUDED_EXTS :
          LET filename == Lower(Name(path))
          IN  \/ EndsWith(filename, <<".">> \o excluded)
              \/ filename = excluded

----------------------------------------------------------------------------
(* has_about_statement *)

Indicators(filename) ==
    { Upper(filename), <<"Source Code">>, <<"Author:">>, <<"Created by:">>,
      <<"Written by:">>, <<"@author">>, <<"* @file">>, <<"* @brief">>,
      <<"Module:">>, <<"Script:">>, <<"Program:">> }

\* has_about_statement searching the whole content
has_about_statement_AllLines(content, filename) ==
    \E indicator \in Indicators(filename) : Contains(content, indicator)

has_about_statement(content, filename) ==
    \E first_lines \in {Join(Take(Split(content), HeaderLines))} :
        \E indicator \in Indicators(filename) : Contains(first_lines, indicator)

----------------------------------------------------------------------------
(* generate_about_statement *)

generate_about_statement(filepath, name, comment_style) ==
    LET filename         == Upper(Name(filepath))
        creation_time    == get_file_creation_time(filepath)
        start_comment    == Lex(comment_style[1])
        end_comment      == Lex(comment_style[2])
        ext              == Lower(Suffix(filepath))
        file_description == FileDescription(ext)
        title            == filename \o <<" - ">> \o file_description
        author           == <<"Author:", " ">> \o name
        created          == <<"Created:", " ", creation_time>>
    IN  IF end_comment # <<>>
        THEN IF \/ ext = <<".", "py">>
                \/ ext \in {<<".", "html">>, <<".", "xml">>, <<".", "svg">>, <<".", "vue">>}
             THEN start_comment \o <<NL>> \o title \o <<NL>> \o author \o <<NL>>
                  \o created \o <<NL>> \o end_comment \o <<NL, NL>>
             ELSE start_comment \o <<NL, " * ">> \o title \o <<NL, " * ">> \o author
                  \o <<NL, " * ">> \o created \o <<NL, " ">> \o end_comment \o <<NL, NL>>
        ELSE start_comment \o title \o <<NL>> \o start_comment \o author \o <<NL>>
             \o start_comment \o created \o <<NL, NL>>

----------------------------------------------------------------------------
(* re.search(r'<!DOCTYPE[^>]*>|<\?xml[^>]*\?>', content, re.IGNORECASE) *)

\* lexemes that match '<!DOCTYPE' and '<\?xml' when case is ignored
DoctypeLex == {"<!DOCTYPE", "<!doctype"}
XmlLex == {"<?xml", "<?XML"}
\* lexemes that hold a '>' (each ends with it); "?>" is the one ending in '?>'
GtLex == {">", "?>", "-->"}

\* MatchEnd without re.IGNORECASE
MatchEnd_CaseSensitive(content, i) ==
    LET j == FindFrom(content, GtLex, i + 1)
    IN  IF content[i] = "<!DOCTYPE" THEN j
        ELSE IF content[i] = "<?xml" /\ j # 0 /\ content[j] = "?>" THEN j
        ELSE 0

\* end of the match that starts at lexeme i, 0 if none starts there:
\* [^>]* runs to the first '>', which must close the pattern
MatchEnd(content, i) ==
    LET j == FindFrom(content, GtLex, i + 1)
    IN  IF content[i] \in DoctypeLex THEN j
        ELSE IF content[i] \in XmlLex /\ j # 0 /\ content[j] = "?>" THEN j
        ELSE 0

\* doctype_match.end() of the leftmost match, 0 when re.search returns None
RECURSIVE SearchFrom(_, _)
SearchFrom(content, i) ==
    IF i > Len(content) THEN 0
    ELSE IF MatchEnd(content, i) # 0 THEN MatchEnd(content, i)
    ELSE SearchFrom(content, i + 1)

doctype_match(content) == SearchFrom(content, 1)

----------------------------------------------------------------------------
(* edit_file, lines 532-578: where the statement goes *)

InsertPhp(content, about_statement) ==
    IF StartsWith(content, <<"<?php">>)
    THEN LET php_tag_end == FindFrom(content, {"?>"}, 1)
             lines       == Split(content)
         IN  IF php_tag_end = 0
             THEN IF Strip(lines[1]) = <<"<?php">>
                  THEN lines[1] \o <<NL, NL>> \o about_statement \o Join(Tail(lines))
                  ELSE about_statement \o content
             ELSE about_statement \o content
    ELSE <<"<?php", NL, NL>> \o about_statement \o content

\* InsertMarkup with the declaration taken one place short
InsertMarkup_OffByOne(content, about_statement) ==
    LET insert_pos == doctype_match(content)
    IN  IF insert_pos # 0
        THEN Take(content, insert_pos - 1) \o <<NL, NL>> \o about_statement
             \o Drop(content, insert_pos)
        ELSE about_statement \o content

InsertMarkup(content, about_statement) ==
    LET insert_pos == doctype_match(content)
    IN  IF insert_pos # 0
        THEN Take(content, insert_pos) \o <<NL, NL>> \o about_statement
             \o Drop(content, insert_pos)
        ELSE about_statement \o content

InsertPy(content, about_statement) ==
    LET lines == Split(content)
        skip1 == IF lines # <<>> /\ StartsWith(lines[1], <<"#!">>) THEN 1 ELSE 0
        insert_line ==
            IF Len(lines) > skip1 /\ Contains(lines[skip1 + 1], <<"coding">>)
            THEN skip1 + 1 ELSE skip1
        new_lines == Take(lines, insert_line) \o <<about_statement>>
                     \o Drop(lines, insert_line)
    IN  Join(new_lines)

InsertStatement(ext, content, about_statement) ==
    IF ext = ExtKey("php") THEN InsertPhp(content, about_statement)
    ELSE IF ext \in {ExtKey("html"), ExtKey("htm"), ExtKey("xml"), ExtKey("svg")}
         THEN InsertMarkup(content, about_statement)
    ELSE IF ext = ExtKey("py") THEN InsertPy(content, about_statement)
    ELSE about_statement \o content

----------------------------------------------------------------------------
(* edit_file, lines 580-590: the writes of one edit, in program order *)

\* a lexeme that stands for a run of BackupThreshold - 1 bytes of text
Blob == "<blob>"

\* size in bytes of a lexeme (the text is ASCII)
ByteLen(a) == IF a = Blob THEN BackupThreshold - 1 ELSE Len(a)

\* filepath.stat().st_size of a file that holds content
RECURSIVE st_size(_)
st_size(content) ==
    IF content = <<>> THEN 0 ELSE ByteLen(content[1]) + st_size(Tail(content))

\* filepath.with_suffix(filepath.suffix + '.bak')
backup_path(filepath) ==
    LET name == Name(filepath)
        stem == Take(name, Len(name) - Len(Suffix(filepath)))
    IN  Take(filepath, Len(filepath) - 1)
        \o << stem \o Suffix(filepath) \o <<".", "bak">> >>

\* Writes with the file written before its backup
Writes_MainFirst(filepath, content, new_content) ==
    << [path |-> filepath, data |-> new_content] >>
    \o (IF st_size(content) > BackupThreshold
        THEN << [path |-> backup_path(filepath), data |-> content] >>
        ELSE <<>>)

\* the files edit_file writes, and what it writes to each
Writes(filepath, content, new_content) ==
    (IF st_size(content) > BackupThreshold
     THEN << [path |-> backup_path(filepath), data |-> content] >>
     ELSE <<>>)
    \o << [path |-> filepath, data |-> new_content] >>

\* the file system after a sequence of writes
RECURSIVE ApplyWrites(_, _)
ApplyWrites(fsys, writes) ==
    IF writes = <<>> THEN fsys
    ELSE ApplyWrites((Head(writes).path :> Head(writes).data) @@ fsys, Tail(writes))

\* position in todo of the first write to path, 0 if there is none
RECURSIVE WriteTo(_, _, _)
WriteTo(todo, path, i) ==
    IF i > Len(todo) THEN 0
    ELSE IF todo[i].path = path THEN i
    ELSE WriteTo(todo, path, i + 1)

\* the try block of lines 581-601: the writes made until one raises (a
\* backup_error is the failure of backup_path.write_text, a write_error
\* that of open(filepath, "w")), and what edit_file returns
WriteBlock(filepath, content, new_content, io) ==
    LET todo == Writes(filepath, content, new_content)
        \* the write that raises, 0 if none does
        k == IF io = "backup_error" THEN WriteTo(todo, backup_path(filepath), 1)
             ELSE IF io = "write_error" THEN WriteTo(todo, filepath, 1)
             ELSE 0
        done == IF k = 0 THEN todo ELSE Take(todo, k - 1)
        wrote == WriteTo(done, filepath, 1) # 0
    IN  [result  |-> IF k = 0 THEN "processed" ELSE "error",
         read    |-> TRUE,
         wrote   |-> wrote,
         writes  |-> done,
         failure |-> IF k = 0 THEN "none" ELSE io,
         after   |-> IF wrote THEN new_content ELSE content]

----------------------------------------------------------------------------
(* The file system: fs maps each regular file that exists to its content;  *)
(* the directories are fixed.                                              *)

ProjDir == << <<"/">>, <<"proj">> >>
Dirs == { <<<<"/">>>>, ProjDir,
          ProjDir \o <<<<"src">>>>,
          ProjDir \o <<<<"node_modules">>>>,
          ProjDir \o <<<<"Node_Modules">>>> }

is_file(fsys, path) == path \in DOMAIN fsys
exists(fsys, path) == is_file(fsys, path) \/ path \in Dirs
is_dir(fsys, path) == path \in Dirs

\* what the operating system does to one open/read/write of edit_file
IOOutcomes == {"ok", "read_error", "backup_error", "write_error"}

(* edit_file: the status, the content the file holds afterwards, whether   *)
(* the file was read and written, the writes done and the failure met.     *)
edit_file(fsys, filepath, name, force, io) ==
    LET ext     == <<"*">> \o Lower(Suffix(filepath))
        content == fsys[filepath]
        failed(r, f) == [result |-> "error", read |-> r, wrote |-> FALSE,
                         writes |-> <<>>, failure |-> f,
                         after |-> IF is_file(fsys, filepath) THEN content ELSE <<>>]
    IN  IF ~exists(fsys, filepath) THEN failed(FALSE, "none")
        ELSE IF ~is_file(fsys, filepath) THEN failed(FALSE, "none")
        ELSE IF ext \notin DOMAIN INCLUDED_EXTS THEN failed(FALSE, "none")
        ELSE IF io = "read_error" THEN failed(FALSE, io)
        ELSE IF has_about_statement(content, Name(filepath)) /\ ~force
             THEN [result |-> "skipped", read |-> TRUE, wrote |-> FALSE,
                   writes |-> <<>>, failure |-> "none", after |-> content]
        ELSE LET comment_style   == INCLUDED_EXTS[ext]
                 about_statement ==
                     generate_about_statement(filepath, name, comment_style)
             IN  CHOOSE r \in
                     { WriteBlock(filepath, content, new_content, io) :
                         new_content \in
                             {InsertStatement(ext, content, about_statement)} } : TRUE

----------------------------------------------------------------------------
(* get_folder *)

\* the pattern get_folder makes of one -x token
Pattern(ext) ==
    IF ~StartsWith(ext, <<"*">>)
    THEN IF ~StartsWith(ext, <<".">>) THEN <<"*", ".">> \o ext ELSE <<"*">> \o ext
    ELSE ext

\* fnmatch of a file name against '*' + rest (case-sensitive, as on POSIX)
Matches(pattern, name) == EndsWith(name, Tail(pattern))

\* folder_path.rglob(...) yields paths below folder_path
Below(folder, path) == Len(path) > Len(folder) /\ Take(path, Len(folder)) = folder

\* Collect without the exclusion filter
RECURSIVE Collect_Unfiltered(_, _, _, _, _)
Collect_Unfiltered(fsys, folder, pattern, order, list) ==
    IF order = <<>> THEN list
    ELSE LET child == Head(order)
             add   == /\ Below(folder, child)
                      /\ Matches(pattern, Name(child))
                      /\ is_file(fsys, child)
                      /\ \A k \in 1..Len(list) : list[k] # child
         IN  Collect_Unfiltered(fsys, folder, pattern, Tail(order),
                                IF add THEN Append(list, child) ELSE list)

\* the inner loop of get_folder for one pattern over the scan order
RECURSIVE Collect(_, _, _, _, _)
Collect(fsys, folder, pattern, order, list) ==
    IF order = <<>> THEN list
    ELSE LET child == Head(order)
             add   == /\ Below(folder, child)
                      /\ Matches(pattern, Name(child))
                      /\ is_file(fsys, child)
                      /\ ~is_excluded_path(child)
                      /\ \A k \in 1..Len(list) : list[k] # child
         IN  Collect(fsys, folder, pattern, Tail(order),
                     IF add THEN Append(list, child) ELSE list)

\* get_folder: the list after the loop over exts; order is the order in
\* which the operating system lists the tree (unspecified)
RECURSIVE get_folder(_, _, _, _, _)
get_folder(fsys, folder, exts, order, list) ==
    IF ~exists(fsys, folder) \/ ~is_dir(fsys, folder) THEN list
    ELSE IF exts = <<>> THEN list
    ELSE get_folder(fsys, folder, Tail(exts), order,
                    Collect(fsys, folder, Pattern(Head(exts)), order, list))

\* the orders in which a set of paths can be listed
Orders(S) ==
    { o \in [1..Cardinality(S) -> S] : \A i, j \in 1..Cardinality(S) : i # j => o[i] # o[j] }

----------------------------------------------------------------------------
(* The inputs of a run *)

File(dir, stem, e) == ProjDir \o dir \o << <<stem, ".", e>> >>

AppPy     == File(<<>>, "app", "py")
LibJs     == File(<<<<"node_modules">>>>, "lib", "js")
CaseAppPy == File(<<<<"Node_Modules">>>>, "app", "py")
BuilderPy == ProjDir \o << <<"src">>, <<"build", "er", ".", "py">> >>
IndexHtml == File(<<<<"src">>>>, "index", "html")
NotesXyz  == File(<<>>, "notes", "xyz")
CachePyc  == File(<<>>, "cache", "pyc")
MainPY    == File(<<>>, "MAIN", "PY")

\* the files a project tree may hold
Universe == {AppPy, LibJs, CaseAppPy, BuilderPy, IndexHtml, NotesXyz, CachePyc,
             MainPY}

\* contents of the files of a tree: one without and one with a header
TreeContents == { <<"x", NL>>, <<"Author:", " ", "x", NL>> }

\* the -x option after split(",") and strip(); <<"*">> alone is the default
DefaultExts == << <<"*">> >>
ExtsChoices == { DefaultExts, << <<"py">> >>, << <<".", "py">>, <<"*">> >> }

Names == { <<"Ada">>, <<" ">> }

\* the directories a run may be given
Roots == { ProjDir, ProjDir \o <<<<"src">>>>, ProjDir \o <<<<"node_modules">>>> }

NoCode == 0 - 1

Init ==
    /\ \E present \in SUBSET Universe :
          /\ Cardinality(present) <= MaxFiles
          /\ fs \in [present -> TreeContents]
    /\ \E path \in Roots \cup Universe, name \in Names, force \in BOOLEAN,
          exts \in ExtsChoices :
          /\ path \notin Roots => exts = DefaultExts
          /\ args = [path |-> path, name |-> name, exts |-> exts, force |-> force]
    /\ FILES_LIST = <<>>
    /\ pc = "main"
    /\ idx = 0
    /\ processed = 0 /\ skipped = 0 /\ errors = 0
    /\ summary = <<>>
    /\ exit_code = NoCode
    /\ log = <<>>
    /\ vanished = 0
    /\ frame = <<>>

\* one call of edit_file, applied to the file system and recorded
Call(filepath, r) ==
    /\ fs' = ApplyWrites(fs, r.writes)
    /\ log' = Append(log, [path |-> filepath, result |-> r.result,
                           read |-> r.read, wrote |-> r.wrote,
                           failure |-> r.failure,
                           before |-> IF is_file(fs, filepath) THEN fs[filepath] ELSE <<>>,
                           after |-> r.after])

Exit(code) == pc' = "exit" /\ exit_code' = code

\* Validate without the check of the author name
Validate_AnyName ==
    /\ pc = "main"
    /\ IF ~exists(fs, args.path) THEN Exit(1) /\ UNCHANGED FILES_LIST
       ELSE /\ FILES_LIST' = <<>>
            /\ exit_code' = exit_code
            /\ pc' = IF is_dir(fs, args.path) THEN "dir" ELSE "file"
    /\ UNCHANGED <<fs, args, idx, processed, skipped, errors, summary, log, vanished, frame>>

(* main, lines 633-656: validation and dispatch *)
Validate ==
    /\ pc = "main"
    /\ IF Strip(args.name) = <<>> THEN Exit(1) /\ UNCHANGED FILES_LIST
       ELSE IF ~exists(fs, args.path) THEN Exit(1) /\ UNCHANGED FILES_LIST
       ELSE /\ FILES_LIST' = <<>>
            /\ exit_code' = exit_code
            /\ pc' = IF is_dir(fs, args.path) THEN "dir" ELSE "file"
    /\ UNCHANGED <<fs, args, idx, processed, skipped, errors, summary, log, vanished, frame>>

(* main, lines 658-664, and perm_edit, lines 360-367 *)
GetFolder ==
    /\ pc = "dir"
    /\ \E order \in Orders(DOMAIN fs) :
          FILES_LIST' = get_folder(fs, args.path, args.exts, order, FILES_LIST)
    /\ IF FILES_LIST' = <<>> THEN Exit(1) /\ UNCHANGED idx
       ELSE pc' = "perm_edit" /\ idx' = 1 /\ exit_code' = exit_code
    /\ processed' = 0 /\ skipped' = 0 /\ errors' = 0
    /\ UNCHANGED <<fs, args, summary, log, vanished, frame>>

\* PermEditStep leaving the loop, and perm_edit, at the first failure
PermEditStep_AbortOnError ==
    /\ pc = "perm_edit"
    /\ idx <= Len(FILES_LIST)
    /\ \E io \in IOOutcomes :
          \E r \in {edit_file(fs, FILES_LIST[idx], args.name, args.force, io)} :
              /\ Call(FILES_LIST[idx], r)
              /\ processed' = processed + (IF r.result = "processed" THEN 1 ELSE 0)
              /\ skipped' = skipped + (IF r.result = "skipped" THEN 1 ELSE 0)
              /\ errors' = errors
              /\ IF r.result \in {"processed", "skipped"}
                 THEN pc' = pc /\ exit_code' = exit_code
                 ELSE Exit(0)
    /\ idx' = idx + 1
    /\ UNCHANGED <<args, FILES_LIST, summary, vanished, frame>>

(* perm_edit, lines 369-389: one turn of the loop *)
PermEditStep ==
    /\ pc = "perm_edit"
    /\ idx <= Len(FILES_LIST)
    /\ LET file_path == FILES_LIST[idx]
       IN  IF is_file(fs, file_path)
           THEN \E io \in IOOutcomes :
                   \E r \in {edit_file(fs, file_path, args.name, args.force, io)} :
                       /\ Call(file_path, r)
                       /\ processed' = processed + (IF r.result = "processed" THEN 1 ELSE 0)
                       /\ skipped' = skipped + (IF r.result = "skipped" THEN 1 ELSE 0)
                       /\ errors' = errors +
                             (IF r.result \notin {"processed", "skipped"} THEN 1 ELSE 0)
           ELSE UNCHANGED <<fs, log, processed, skipped, errors>>
    /\ idx' = idx + 1
    /\ UNCHANGED <<args, FILES_LIST, pc, summary, exit_code, vanished, frame>>

(* perm_edit, lines 391-397, and main, line 687 *)
PermEditSummary ==
    /\ pc = "perm_edit"
    /\ idx > Len(FILES_LIST)
    /\ summary' = <<[processed |-> processed, skipped |-> skipped, errors |-> errors]>>
    /\ Exit(0)
    /\ UNCHANGED <<fs, args, FILES_LIST, idx, processed, skipped, errors, log, vanished, frame>>

(* main, lines 666-687: single file mode *)
SingleFile ==
    /\ pc = "file"
    /\ \E io \in IOOutcomes :
          \E r \in {edit_file(fs, args.path, args.name, args.force, io)} :
              /\ Call(args.path, r)
              /\ Exit(IF r.result \in {"processed", "skipped"} THEN 0 ELSE 1)
    /\ UNCHANGED <<args, FILES_LIST, idx, processed, skipped, errors, summary, vanished, frame>>

(* the environment: a candidate not yet visited is removed by another process *)
Vanish ==
    /\ pc = "perm_edit"
    /\ vanished < MaxVanish
    /\ \E j \in idx..Len(FILES_LIST) :
          /\ is_file(fs, FILES_LIST[j])
          /\ fs' = [p \in DOMAIN fs \ {FILES_LIST[j]} |-> fs[p]]
    /\ vanished' = vanished + 1
    /\ UNCHANGED <<args, FILES_LIST, pc, idx, processed, skipped, errors, summary,
                   exit_code, log, frame>>

Program == Validate \/ GetFolder \/ PermEditStep \/ PermEditSummary \/ SingleFile

Next == Validate \/ GetFolder \/ PermEditStep \/ PermEditSummary \/ SingleFile \/ Vanish

Spec == Init /\ [][Next]_vars

\* the program is sequential and keeps running until it exits
FairSpec == Spec /\ WF_vars(Program)

----------------------------------------------------------------------------
(* The per-file pipeline alone: edit_file called again and again on one    *)
(* readable, writable file, with the same author and the same force flag.  *)

ModPyx  == File(<<>>, "mod", "pyx")
PagePhp == File(<<>>, "page", "php")
MainC   == File(<<>>, "main", "c")
RunSh   == File(<<>>, "run", "sh")
PageHtm == File(<<>>, "page", "htm")
LogoSvg == File(<<>>, "logo", "svg")

\* one file of each comment style and insertion rule
EditFiles == {AppPy, ModPyx, IndexHtml, PageHtm, LogoSvg, PagePhp, MainC, RunSh}

\* the lexemes generated bodies are made of
Alphabet == {NL, "x", "Author:", "#!", "coding", "<!DOCTYPE", "<!doctype",
             "<?xml", "?>", ">", "<?php"}

Bodies == UNION { [1..n -> Alphabet] : n \in 0..MaxLen }

\* k empty lines
Blank(k) == [i \in 1..k |-> NL]

\* leading empty lines that put the body on line 1, on the last line that
\* has_about_statement reads, and on the first line it does not read
Pads == {0, HeaderLines - 1, HeaderLines}

\* the contents of the scenarios of the documentation
Scenarios(filepath) ==
    { <<"#!", "x", NL, "#", "coding", NL, "x", NL>>,
      <<"<!DOCTYPE", "x", ">", NL, "x", NL>>,
      <<"<?php", NL, "x", NL>>,
      <<"x", NL>> \o Upper(Name(filepath)) \o <<NL>>,
      <<Blob, "x", NL>> }

Contents(filepath) ==
    { Blank(k) \o b : k \in Pads, b \in Bodies } \cup Scenarios(filepath)

EditInit ==
    /\ \E f \in EditFiles, force \in BOOLEAN :
          /\ \E c \in Contents(f) : fs = (f :> c)
          /\ args = [path |-> f, name |-> <<"Ada">>, exts |-> DefaultExts,
                     force |-> force]
    /\ FILES_LIST = <<>>
    /\ pc = "edit_file"
    /\ idx = 0
    /\ processed = 0 /\ skipped = 0 /\ errors = 0
    /\ summary = <<>>
    /\ exit_code = NoCode
    /\ log = <<>>
    /\ vanished = 0
    /\ frame = <<>>

EditRun ==
    /\ pc = "edit_file"
    /\ Len(log) < MaxRuns
    /\ Call(args.path, edit_file(fs, args.path, args.name, args.force, "ok"))
    /\ UNCHANGED <<args, FILES_LIST, pc, idx, processed, skipped, errors, summary,
                   exit_code, vanished, frame>>

EditNext == EditRun

SpecEdit == EditInit /\ [][EditNext]_vars

----------------------------------------------------------------------------
(* edit_file one write at a time: the states between the writes of lines   *)
(* 583-590 and the states a failed write leaves.  frame holds the locals   *)
(* of the call in progress, <<>> when none is.                             *)

\* contents below, at and above the size that gets a backup, each without
\* and with a header
BackupContents ==
    { h \o b \o <<NL>> : h \in { <<>>, <<"Author:", " ">> },
                         b \in { <<"x">>, <<Blob>>, <<Blob, "x">>, <<Blob, "x", "x">> } }

BackupFiles == {AppPy, MainC, IndexHtml}

BackupInit ==
    /\ \E f \in BackupFiles, force \in BOOLEAN :
          /\ \E c \in BackupContents : fs = (f :> c)
          /\ args = [path |-> f, name |-> <<"Ada">>, exts |-> DefaultExts,
                     force |-> force]
    /\ FILES_LIST = <<>>
    /\ pc = "edit_file"
    /\ idx = 0
    /\ processed = 0 /\ skipped = 0 /\ errors = 0
    /\ summary = <<>>
    /\ exit_code = NoCode
    /\ log = <<>>
    /\ vanished = 0
    /\ frame = <<>>

\* lines 488-578: up to the point where new_content is computed
EditBegin ==
    /\ pc = "edit_file"
    /\ frame = <<>>
    /\ Len(log) < MaxRuns
    /\ \E r \in {edit_file(fs, args.path, args.name, args.force, "ok")} :
          IF r.result = "processed"
          THEN /\ frame' = [before |-> fs[args.path], after |-> r.after,
                            todo |-> r.writes]
               /\ UNCHANGED <<fs, log>>
          ELSE /\ Call(args.path, r)
               /\ frame' = frame
    /\ UNCHANGED <<args, FILES_LIST, pc, idx, processed, skipped, errors, summary,
                   exit_code, vanished>>

\* lines 583-596: the next write succeeds; after the last one the call returns
EditWrite ==
    /\ pc = "edit_file"
    /\ frame # <<>>
    /\ fs' = ApplyWrites(fs, <<Head(frame.todo)>>)
    /\ IF Tail(frame.todo) # <<>>
       THEN /\ frame' = [frame EXCEPT !.todo = Tail(frame.todo)]
            /\ log' = log
       ELSE /\ frame' = <<>>
            /\ log' = Append(log, [path |-> args.path, result |-> "processed",
                                   read |-> TRUE, wrote |-> TRUE, failure |-> "none",
                                   before |-> frame.before, after |-> fs'[args.path]])
    /\ UNCHANGED <<args, FILES_LIST, pc, idx, processed, skipped, errors, summary,
                   exit_code, vanished>>

\* lines 598-601: the next write raises, the call returns "error"
EditWriteFails ==
    /\ pc = "edit_file"
    /\ frame # <<>>
    /\ frame' = <<>>
    /\ log' = Append(log, [path |-> args.path, result |-> "error", read |-> TRUE,
                           wrote |-> fs[args.path] # frame.before,
                           failure |-> IF Head(frame.todo).path = args.path
                                       THEN "write_error" ELSE "backup_error",
                           before |-> frame.before, after |-> fs[args.path]])
    /\ UNCHANGED <<fs, args, FILES_LIST, pc, idx, processed, skipped, errors, summary,
                   exit_code, vanished>>

BackupNext == EditBegin \/ EditWrite \/ EditWriteFails

SpecBackup == BackupInit /\ [][BackupNext]_vars

----------------------------------------------------------------------------
(* Vocabulary of the properties *)

\* the statement edit_file generates for a file
StatementOf(filepath) ==
    generate_about_statement(filepath, args.name,
                             INCLUDED_EXTS[<<"*">> \o Lower(Suffix(filepath))])

\* number of newlines among the first n lexemes of s
RECURSIVE NewlinesBefore(_, _)
NewlinesBefore(s, n) ==
    IF n = 0 THEN 0
    ELSE NewlinesBefore(s, n - 1) + (IF s[n] = NL THEN 1 ELSE 0)

\* an indicator occurs in s on one of the first HeaderLines lines
IndicatorInHead(s, filename) ==
    \E ind \in Indicators(filename) : \E p \in 1..Len(s) :
        /\ p + Len(ind) - 1 <= Len(s)
        /\ SubSeq(s, p, p + Len(ind) - 1) = ind
        /\ NewlinesBefore(s, p - 1) < HeaderLines

\* number of places of s at which sub occurs
Occurrences(s, sub) ==
    Cardinality({ p \in 1..Len(s) :
                    p + Len(sub) - 1 <= Len(s) /\ SubSeq(s, p, p + Len(sub) - 1) = sub })

\* sequences of at most two newlines
Gaps == { <<>>, <<NL>>, <<NL, NL>> }

\* old is the end of new, and what precedes it holds the statement
KeptAsSuffix(old, new, st) ==
    /\ EndsWith(new, old)
    /\ Contains(Take(new, Len(new) - Len(old)), st)

\* new is old cut once after a preamble of k lexemes, with the statement
\* (set off by newlines) put in the cut
KeptAroundPreamble(old, new, st) ==
    \E k \in 1..Len(old) : \E g1 \in Gaps, g2 \in Gaps :
        new = Take(old, k) \o g1 \o st \o g2 \o Drop(old, k)

Markup == { <<".", "html">>, <<".", "htm">>, <<".", "xml">>, <<".", "svg">> }
TripleQuote == { <<".", "py">>, <<".", "pyx">>, <<".", "pyi">> }

Processed(i) == i \in 1..Len(log) /\ log[i].result = "processed"

----------------------------------------------------------------------------
(* C1: Idempotence: two runs of edit_file on a supported file with the     *)
(* same author and force = false leave, after the second run, the content  *)
(* of the first run, and the second run returns "skipped"; for every       *)
(* insertion rule.                                                         *)
C1_Idempotent ==
    (Len(log) >= 2 /\ ~args.force) =>
        /\ log[2].after = log[1].after
        /\ log[2].result = "skipped"

C8_SkipDecision ==
    /\ \A i \in 1..Len(log) :
          (log[i].result = "skipped") <=>
              (~args.force /\ IndicatorInHead(log[i].before, Name(log[i].path)))
    /\ (args.force /\ Len(log) >= 2) =>
          /\ log[2].result = "processed"
          /\ Occurrences(log[2].after, StatementOf(log[2].path)) >= 2

\* a forced second run on a file whose header the detector sees
C8_Witness ==
    /\ Len(log) >= 2
    /\ args.force
    /\ IndicatorInHead(log[2].before, Name(log[2].path))
    /\ Occurrences(log[2].after, StatementOf(log[2].path)) = 2

(* C9: Script-with-preamble insertion: for .py, .pyx and .pyi files a      *)
(* leading shebang line stays the first line, a line containing "coding"   *)
(* right after it stays second, and the statement comes after these lines  *)
(* and before the rest of the original content.                            *)
C9_Preamble ==
    \A i \in 1..Len(log) :
        (/\ Processed(i)
         /\ Lower(Suffix(log[i].path)) \in TripleQuote
         /\ StartsWith(log[i].before, <<"#!">>)) =>
            LET old  == Split(log[i].before)
                k    == IF Len(old) >= 2 /\ Contains(old[2], <<"coding">>) THEN 2 ELSE 1
                head == Join(Take(old, k))
                rest == Join(Drop(old, k))
                st   == StatementOf(log[i].path)
            IN  \E g \in Gaps :
                    log[i].after = head \o <<NL>> \o st \o g \o rest

(* C10: Markup insertion: for .html, .htm, .xml and .svg files the         *)
(* statement is inserted right after the first <!DOCTYPE ...> or           *)
(* <?xml ...?> declaration, which keeps its place; without a declaration   *)
(* the statement is prepended.                                             *)

\* a declaration of s starts at lexeme b and ends at lexeme e
Declaration(s, b, e) ==
    /\ b < e
    /\ \A j \in (b + 1)..(e - 1) : s[j] \notin GtLex
    /\ \/ s[b] \in DoctypeLex /\ s[e] \in GtLex
       \/ s[b] \in XmlLex /\ s[e] = "?>"

C10_Markup ==
    \A i \in 1..Len(log) :
        (Processed(i) /\ Lower(Suffix(log[i].path)) \in Markup) =>
            LET old == log[i].before
                new == log[i].after
                st  == StatementOf(log[i].path)
                D   == { d \in (1..Len(old)) \X (1..Len(old)) : Declaration(old, d[1], d[2]) }
            IN  IF D = {}
                THEN new = st \o old
                ELSE \E d \in D :
                        /\ \A o \in D : d[1] <= o[1]
                        /\ Take(new, d[2]) = Take(old, d[2])
                        /\ Drop(new, d[2]) = <<NL, NL>> \o st \o Drop(old, d[2])

\* a file that starts with a DOCTYPE still starts with it, and one whose
\* declaration is in lower case and not at the start was handled too
C10_Witness ==
    /\ Processed(1)
    /\ Lower(Suffix(log[1].path)) \in Markup
    /\ log[1].before # <<>>
    /\ log[1].before[1] \in DoctypeLex \cup XmlLex
    /\ log[1].after[1] = log[1].before[1]
    /\ Contains(Drop(log[1].after, 2), StatementOf(log[1].path))

(* C12: PHP insertion: a .php content that starts with the opening tag     *)
(* and holds no closing tag becomes its first line, the statement, then    *)
(* its remaining lines, the statement never preceding the opening tag;     *)
(* with a closing tag the statement is prepended to the content; without   *)
(* an opening tag the result is "<?php", a blank line, the statement and   *)
(* the content.                                                            *)
C12_Php ==
    \A i \in 1..Len(log) :
        (Processed(i) /\ Lower(Suffix(log[i].path)) = <<".", "php">>) =>
            LET old   == log[i].before
                new   == log[i].after
                st    == StatementOf(log[i].path)
                lines == Split(old)
            IN  IF StartsWith(old, <<"<?php">>)
                THEN IF ~Contains(old, <<"?>">>)
                     THEN /\ \E g \in {<<NL>>, <<NL, NL>>} :
                               new = lines[1] \o g \o st \o Join(Tail(lines))
                          /\ StartsWith(new, <<"<?php">>)
                     ELSE new = st \o old
                ELSE new = <<"<?php", NL, NL>> \o st \o old

(* C13: Backup ordering: for a file larger than the threshold, in every    *)
(* state in which the file holds the new content of an edit, the sibling   *)
(* backup file (same path plus ".bak") exists and holds the content read   *)
(* at the start of that edit; if the backup write fails the file is left   *)
(* unmodified and the outcome is "error"; for a file at or below the       *)
(* threshold no backup file is written.  The edit of a state is the call   *)
(* in progress, or else the last call made.                                *)

\* the edits of the current state: the content read and the content to write
CurrentEdit ==
    IF frame # <<>> THEN { [before |-> frame.before, after |-> frame.after] }
    ELSE IF Processed(Len(log))
         THEN { [before |-> log[Len(log)].before, after |-> log[Len(log)].after] }
         ELSE {}

\* the contents read by the calls made so far and by the one in progress
ContentsRead ==
    { log[i].before : i \in 1..Len(log) }
    \cup (IF frame # <<>> THEN {frame.before} ELSE {})

C13_BackupOrdering ==
    LET bak == backup_path(args.path)
    IN  /\ \A e \in CurrentEdit :
              (st_size(e.before) > BackupThreshold /\ fs[args.path] = e.after) =>
                  (bak \in DOMAIN fs /\ fs[bak] = e.before)
        /\ \A i \in 1..Len(log) :
              log[i].failure = "backup_error" =>
                  /\ log[i].result = "error"
                  /\ log[i].after = log[i].before
                  /\ i = Len(log) => fs[args.path] = log[i].before
        /\ (\A c \in ContentsRead : st_size(c) <= BackupThreshold) =>
              bak \notin DOMAIN fs

\* a file one byte over the threshold was annotated, and its backup holds
\* what was read
C13_Witness ==
    /\ frame = <<>>
    /\ Processed(Len(log))
    /\ st_size(log[Len(log)].before) = BackupThreshold + 1
    /\ fs[args.path] = log[Len(log)].after
    /\ fs[args.path] # log[Len(log)].before
    /\ backup_path(args.path) \in DOMAIN fs
    /\ fs[backup_path(args.path)] = log[Len(log)].before

----------------------------------------------------------------------------
(* Properties of a whole run of main *)

DirMode == is_dir(fs, args.path)
ValidName == Strip(args.name) # <<>>

\* a segment of the path equals, whatever the case, an excluded token
HasExcludedSegment(path) ==
    \E p \in 1..Len(path) : Lower(path[p]) \in EXCLUDED_EXTS

(* C3: Exclusion: after get_folder the candidate list holds no path with   *)
(* a segment equal, case-insensitively, to an excluded token, whatever the *)
(* root and the extension filters.                                         *)
C3_Exclusion ==
    \A i \in 1..Len(FILES_LIST) : ~HasExcludedSegment(FILES_LIST[i])

\* get_folder ran over a tree holding such a file below the root, and kept
\* another file
C3_Witness ==
    /\ pc = "perm_edit"
    /\ FILES_LIST # <<>>
    /\ \E f \in DOMAIN fs :
          /\ Below(args.path, f)
          /\ HasExcludedSegment(f)
          /\ Name(f) # Lower(Name(f)) \/ \E p \in 1..Len(f) : f[p] # Lower(f[p])

(* C4: Excluded files are invisible downstream of the filter: in no        *)
(* invocation, directory mode or single-file mode, does the edit pipeline  *)
(* read, rewrite or give a status to a file that is_excluded_path          *)
(* excludes.                                                               *)
C4_Original ==
    \A i \in 1..Len(log) : ~is_excluded_path(log[i].path)

(* C4, amended: in directory mode the edit pipeline never reads, rewrites  *)
(* or gives a status to an excluded file.                                  *)
C4_DirectoryMode ==
    DirMode => \A i \in 1..Len(log) : ~is_excluded_path(log[i].path)

\* a directory run that ended, visited a file, and had an excluded file
\* below its root
C4_Witness ==
    /\ DirMode
    /\ pc = "exit"
    /\ log # <<>>
    /\ \E f \in DOMAIN fs : Below(args.path, f) /\ is_excluded_path(f)

(* C5: Exit status of main: 0 when a directory run processed at least one  *)
(* file or the single file ended processed or skipped; 1 for an author     *)
(* name that is empty once trimmed, a path that does not exist, an empty   *)
(* candidate set, or a single-file outcome "error"; and with an argument   *)
(* error no file is read or written before the exit.                       *)
C5_ExitStatus ==
    pc = "exit" =>
        /\ (ValidName /\ DirMode /\ processed >= 1) => exit_code = 0
        /\ (ValidName /\ ~DirMode /\ log # <<>>) =>
              /\ log[1].result \in {"processed", "skipped"} => exit_code = 0
              /\ log[1].result = "error" => exit_code = 1
        /\ ~ValidName => exit_code = 1 /\ log = <<>>
        /\ ~exists(fs, args.path) => exit_code = 1 /\ log = <<>>
        /\ (ValidName /\ DirMode /\ FILES_LIST = <<>>) => exit_code = 1

\* a run refused for its blank author name although its path exists
C5_Witness ==
    /\ pc = "exit"
    /\ ~ValidName
    /\ is_file(fs, args.path)
    /\ exit_code = 1

(* C6: Batch completeness: every candidate is visited exactly once, in     *)
(* list order, and ends processed, skipped or error; no failure, the file  *)
(* having vanished since collection included, stops the loop; at the end   *)
(* processed + skipped + errors is the number of candidates.               *)
C6_Complete ==
    (pc = "exit" /\ summary # <<>>) =>
        /\ [i \in 1..Len(log) |-> log[i].path] = FILES_LIST
        /\ \A i \in 1..Len(log) : log[i].result \in {"processed", "skipped", "error"}
        /\ processed + skipped + errors = Len(FILES_LIST)

(* C7: Every directory run that passes validation eventually reports the   *)
(* aggregate counts; one whose candidate set is empty ends with the        *)
(* failure exit and reported counts all 0.                                 *)
C7_Original ==
    (pc = "exit" /\ DirMode /\ ValidName) =>
        /\ summary # <<>>
        /\ FILES_LIST = <<>> =>
              /\ exit_code = 1
              /\ summary = <<[processed |-> 0, skipped |-> 0, errors |-> 0]>>

(* C7, amended: every directory run that passes validation ends; with at   *)
(* least one candidate it ends by reporting the aggregate counts, and with *)
(* an empty candidate set it ends with the failure exit, no counts being   *)
(* reported and no file processed, skipped or failed.                      *)
C7_Reports ==
    (pc = "dir") ~>
        (/\ pc = "exit"
         /\ FILES_LIST # <<>> =>
               summary = <<[processed |-> processed, skipped |-> skipped,
                            errors |-> errors]>>
         /\ FILES_LIST = <<>> =>
               /\ exit_code = 1
               /\ summary = <<>>
               /\ processed = 0 /\ skipped = 0 /\ errors = 0 /\ log = <<>>)

\* a directory holding only excluded files: the run failed without a report
C7_Witness ==
    /\ pc = "exit"
    /\ DirMode /\ ValidName
    /\ \E f \in DOMAIN fs : Below(args.path, f)
    /\ FILES_LIST = <<>>
    /\ exit_code = 1
    /\ summary = <<>>

(* C11: Case handling: a file whose suffix, lower-cased, is a registered   *)
(* extension gets the comment style and the insertion rule of the          *)
(* lower-case suffix, in edit_file and in the extension filter of          *)
(* get_folder alike, and the statement names the file in upper case.       *)

\* the path with the suffix of its name in lower case
LowerSuffixed(path) ==
    LET name == Name(path)
        n    == Len(name) - Len(Suffix(path))
    IN  Take(path, Len(path) - 1) \o << Take(name, n) \o Lower(Drop(name, n)) >>

Registered(path) == (<<"*">> \o Lower(Suffix(path))) \in DOMAIN INCLUDED_EXTS

\* edit_file treats the file as it treats its lower-case twin
C11_Pipeline ==
    \A i \in 1..Len(log) :
        (Processed(i) /\ Registered(log[i].path)) =>
            LET twin == LowerSuffixed(log[i].path)
            IN  /\ log[i].after =
                      edit_file(twin :> log[i].before, twin, args.name, TRUE, "ok").after
                /\ Contains(log[i].after, Upper(Name(log[i].path)))

\* get_folder collects the file whenever a filter selects its lower-case twin
C11_Walker ==
    (pc = "perm_edit" /\ vanished = 0) =>
        \A f \in DOMAIN fs :
            (/\ Registered(f)
             /\ Below(args.path, f)
             /\ ~is_excluded_path(f)
             /\ \E k \in 1..Len(args.exts) :
                   Matches(Pattern(args.exts[k]), Name(LowerSuffixed(f)))) =>
                \E j \in 1..Len(FILES_LIST) : FILES_LIST[j] = f

C11_CaseHandling == C11_Pipeline /\ C11_Walker

====
